---- MODULE Spec2Model ----
(***************************************************************************)
(* Consilium progress stream (backend/app/routers/consilium.py) and the    *)
(* three-stage deliberation pipeline it drives                             *)
(* (backend/app/services/consilium.py).                                    *)
(*                                                                         *)
(* Two asyncio tasks share one event loop: the async generator generate()  *)
(* (the consumer, driven by the HTTP transport) and run_task() (the         *)
(* producer, created with asyncio.create_task).  They communicate through  *)
(* the unbounded asyncio.Queue stage_updates, the asyncio.Event task_done  *)
(* and the dict task_result.  A step of the model is the code a task runs  *)
(* between two suspension points of the event loop.                        *)
(***************************************************************************)
EXTENDS Naturals, Sequences, FiniteSets

VARIABLES
    gpc,            \* position of generate()
    yielded,        \* items generate() has yielded, heartbeats left out
    hb_since,       \* heartbeat items yielded since the last other item
    hb_before,      \* whether a heartbeat was yielded before the last stage event
    idle_since,     \* heartbeat intervals that ran out since the last stage event was read
    timer_fired,    \* wait_for's timer ran out; TimeoutError not yet handled
    elapsed,        \* generate(): elapsed
    stage_updates,  \* generate(): stage_updates (asyncio.Queue), head first
    task_done,      \* generate(): task_done (asyncio.Event)
    task_result,    \* generate(): task_result
    outcome,        \* generate(): success, error_msg
    usage_stat,     \* the records save_usage_stat was called with
    tpc,            \* position of run_task() / run_consilium()
    calls,          \* stage 1: state of each concurrent call
    opinions,       \* stage 1: each expert's opinion, "error" or "ok"
    search_error,   \* stage 1: search_results, "error" or "ok"
    review_data,    \* stage 2: shape of the review data returned
    review_input,   \* experts whose opinion went into the review prompt
    synth_input,    \* experts whose opinion went into the synthesis prompt
    emitted,        \* stage events on_stage_update has put, in order
    ext_calls,      \* external text-generation calls issued so far
    trace,          \* run_consilium: what it did so far, in program order
    cc_pc,          \* position of chat_completion()
    attempt,        \* chat_completion: attempt
    requests,       \* chat_completion: upstream outcome of each HTTP request made
    sleeps,         \* chat_completion: the time.sleep() calls made, in seconds
    vc_pc,          \* position of _verify_cases()
    vc_cases,       \* _verify_cases: cases
    vc_i,           \* _verify_cases: index of the case the loop is at
    verified_cases, \* _verify_cases: verified_cases
    vc_queries,     \* _verify_cases: the sources queried, with the case index
    damia_result,   \* _verify_cases: damia_result
    ex_pc,          \* position of _extract_case_numbers()
    ex_response,    \* _extract_case_numbers: what the model call produced
    unique_cases,   \* _extract_case_numbers: the list returned
    np_pc,          \* position of the NPA extraction function called
    np_input,       \* NPA extraction: the strategy and what it works on
    np_references,  \* NPA extraction: the list returned
    nv_pc,          \* position of verify_npa_references()
    nv_tasks,       \* verify_npa_references: state of each verify_with_semaphore task
    semaphore,      \* verify_npa_references: value of the semaphore
    nv_verified,    \* verify_npa_references: verified (the statuses)
    rv_pc,          \* position of stage_2_peer_review() within run_consilium
    rv_response,    \* stage_2_peer_review: what the reviewer call produced
    rv_verified_cases, \* run_consilium: result["verified_cases"]
    q_pc,           \* position of single_query's generate()
    q_yielded,      \* items single_query's generate() has yielded
    stage_queue,    \* single_query generate(): stage_queue, head first
    s_pc,           \* position of search_court_practice()
    s_emitted       \* stage events search_court_practice has put, in order

vars == <<gpc, yielded, hb_since, hb_before, idle_since, timer_fired, elapsed,
          stage_updates, task_done, task_result, outcome, usage_stat, tpc,
          calls, opinions, search_error, review_data, review_input, synth_input,
          emitted, ext_calls, trace, cc_pc, attempt, requests, sleeps, vc_pc,
          vc_cases, vc_i, verified_cases, vc_queries, damia_result, ex_pc, ex_response,
          unique_cases, np_pc, np_input, np_references, nv_pc, nv_tasks,
          semaphore, nv_verified, rv_pc, rv_response, rv_verified_cases,
          q_pc, q_yielded, stage_queue, s_pc, s_emitted>>

gen_vars == <<gpc, yielded, hb_since, hb_before, idle_since, timer_fired,
              elapsed, outcome, usage_stat>>

task_vars == <<tpc, calls, opinions, search_error, review_data, review_input,
               synth_input, emitted, ext_calls, trace>>

\* The variables shared by generate() and run_task().
shared_vars == <<stage_updates, task_done, task_result>>

\* The variables of the stream and its pipeline.
stream_vars == <<gen_vars, task_vars, shared_vars>>

\* The variables of the service functions specified on their own.
chat_vars == <<cc_pc, attempt, requests, sleeps>>
verify_vars == <<vc_pc, vc_cases, vc_i, verified_cases, vc_queries,
                 damia_result>>
extract_vars == <<ex_pc, ex_response, unique_cases>>
npa_extract_vars == <<np_pc, np_input, np_references>>
npa_verify_vars == <<nv_pc, nv_tasks, semaphore, nv_verified>>
review_vars == <<rv_pc, rv_response, rv_verified_cases>>
query_vars == <<q_pc, q_yielded, stage_queue, s_pc, s_emitted>>
more_vars == <<npa_extract_vars, npa_verify_vars, review_vars, query_vars>>
svc_vars == <<chat_vars, verify_vars, extract_vars, more_vars>>

-----------------------------------------------------------------------------
(* Program constants *)

total_timeout == 600
heartbeat_interval == 30

expert_roles == <<"chairman", "expert_1", "expert_2">>
ExpertSet == {expert_roles[i] : i \in 1..Len(expert_roles)}
GatherTasks == ExpertSet \cup {"searcher"}

StageEvents == {"stage_1", "stage_2", "stage_3"}
Sentinel == "None"
TerminalEvents == {"complete", "error"}

NoResult == [kind |-> "None", final_answer |-> "None"]
NoError == "None"

-----------------------------------------------------------------------------
(* Helpers *)

Range(s) == {s[i] : i \in 1..Len(s)}
IsPrefix(s, t) == Len(s) <= Len(t) /\ \A i \in 1..Len(s) : s[i] = t[i]
IsStage(x) == x \in StageEvents
IsTerminal(x) == x \in TerminalEvents
Count(s, x) == Cardinality({i \in 1..Len(s) : s[i] = x})
YieldedStages == SelectSeq(yielded, IsStage)
Emitted(x) == x \in Range(yielded)

-----------------------------------------------------------------------------
StreamInit ==
    /\ gpc = "starting"
    /\ yielded = <<>>
    /\ hb_since = 0
    /\ hb_before = FALSE
    /\ idle_since = 0
    /\ timer_fired = FALSE
    /\ elapsed = 0
    /\ stage_updates = <<>>
    /\ task_done = FALSE
    /\ task_result = [result |-> NoResult, error |-> NoError]
    /\ outcome = [success |-> TRUE, error_msg |-> "None"]
    /\ usage_stat = <<>>
    /\ tpc = "not_created"
    /\ calls = [r \in GatherTasks |-> "idle"]
    /\ opinions = [r \in ExpertSet |-> "unset"]
    /\ search_error = "unset"
    /\ review_data = "unset"
    /\ review_input = {}
    /\ synth_input = {}
    /\ emitted = <<>>
    /\ ext_calls = 0
    /\ trace = <<>>

\* The service functions before they are called.
NoResponse == [kind |-> "None", cases |-> <<>>]
NoDamiaResult == [exists |-> FALSE, error |-> "None"]

ChatIdle ==
    /\ cc_pc = "idle"
    /\ attempt = 0
    /\ requests = <<>>
    /\ sleeps = <<>>

VerifyIdle ==
    /\ vc_pc = "idle"
    /\ vc_cases = <<>>
    /\ vc_i = 0
    /\ verified_cases = <<>>
    /\ vc_queries = <<>>
    /\ damia_result = NoDamiaResult

ExtractIdle ==
    /\ ex_pc = "idle"
    /\ ex_response = NoResponse
    /\ unique_cases = <<>>

NoNpaInput == [strategy |-> "None", kind |-> "None", items |-> <<>>]

NpaExtractIdle ==
    /\ np_pc = "idle"
    /\ np_input = NoNpaInput
    /\ np_references = <<>>

NpaVerifyIdle ==
    /\ nv_pc = "idle"
    /\ nv_tasks = <<>>
    /\ semaphore = 0
    /\ nv_verified = <<>>

ReviewIdle ==
    /\ rv_pc = "idle"
    /\ rv_response = NoResponse
    /\ rv_verified_cases = <<>>

QueryIdle ==
    /\ q_pc = "idle"
    /\ q_yielded = <<>>
    /\ stage_queue = <<>>
    /\ s_pc = "not_created"
    /\ s_emitted = <<>>

MoreIdle ==
    /\ NpaExtractIdle
    /\ NpaVerifyIdle
    /\ ReviewIdle
    /\ QueryIdle

Init ==
    /\ StreamInit
    /\ MoreIdle
    /\ ChatIdle
    /\ VerifyIdle
    /\ ExtractIdle

-----------------------------------------------------------------------------
(* generate(): the consumer.  Every yield appends to yielded; a heartbeat   *)
(* is counted in hb_since instead, and hb_before tells whether there were  *)
(* heartbeats before the last stage event.                                 *)

Yield(item) == yielded' = Append(yielded, item)

YieldHeartbeat ==
    /\ hb_since' = hb_since + 1
    /\ UNCHANGED <<yielded, hb_before>>

\* run_task() is ready to run: it was just created, or what it awaited has
\* completed (every gathered call has settled, a stage has returned).  It is
\* not ready while it waits for an external call.  The event loop runs a
\* ready task at once, so no timer of the consumer runs out meanwhile.
TaskReady ==
    \/ tpc \in {"created", "gathered", "reviewed"}
    \/ tpc = "gathering" /\ \A r \in DOMAIN calls : calls[r] \in {"ok", "failed"}

\* yield {'stage': 'starting', ...}
GenStarting ==
    /\ gpc = "starting"
    /\ Yield("starting")
    /\ gpc' = "spawn"
    /\ UNCHANGED <<hb_since, hb_before, idle_since, timer_fired, elapsed,
                   outcome, usage_stat, stage_updates, task_done, task_result>>
    /\ UNCHANGED task_vars
    /\ UNCHANGED svc_vars

\* asyncio.create_task(run_task()); elapsed = 0
GenCreateTask ==
    /\ gpc = "spawn"
    /\ tpc' = "created"
    /\ elapsed' = 0
    /\ gpc' = "loop"
    /\ UNCHANGED <<yielded, hb_since, hb_before, idle_since, timer_fired,
                   outcome, usage_stat, stage_updates, task_done, task_result>>
    /\ UNCHANGED <<calls, opinions, search_error, review_data, review_input,
                   synth_input, emitted, ext_calls, trace>>
    /\ UNCHANGED svc_vars

\* update = await wait_for(stage_updates.get(), ...) returns an item:
\* the sentinel breaks the loop, anything else is yielded and resets elapsed.
LoopGet ==
    /\ gpc = "loop"
    /\ elapsed < total_timeout
    /\ ~timer_fired
    /\ stage_updates # <<>>
    /\ stage_updates' = Tail(stage_updates)
    /\ IF Head(stage_updates) = Sentinel
         THEN /\ gpc' = "wait_done"
              /\ UNCHANGED <<yielded, elapsed, hb_since, hb_before, idle_since>>
         ELSE /\ Yield(Head(stage_updates))
              /\ elapsed' = 0
              /\ hb_since' = 0
              /\ hb_before' = (hb_before \/ hb_since > 0)
              /\ idle_since' = 0
              /\ gpc' = "loop"
    /\ UNCHANGED <<timer_fired, outcome, usage_stat, task_done,
                   task_result>>
    /\ UNCHANGED task_vars
    /\ UNCHANGED svc_vars

\* wait_for(..., timeout=heartbeat_interval): the queue stayed empty for a
\* whole heartbeat interval, the timer runs out and get() is cancelled.
TimerFires ==
    /\ gpc = "loop"
    /\ elapsed < total_timeout
    /\ ~timer_fired
    /\ stage_updates = <<>>
    /\ ~TaskReady
    /\ timer_fired' = TRUE
    /\ idle_since' = idle_since + 1
    /\ UNCHANGED <<gpc, yielded, hb_since, hb_before, elapsed, outcome,
                   usage_stat, stage_updates, task_done, task_result>>
    /\ UNCHANGED task_vars
    /\ UNCHANGED svc_vars

\* HandleTimeout with the last update yielded again in place of the heartbeat.
HandleTimeout_ReyieldsUpdate ==
    /\ gpc = "loop"
    /\ timer_fired
    /\ timer_fired' = FALSE
    /\ elapsed' = elapsed + heartbeat_interval
    /\ IF YieldedStages # <<>>
         THEN /\ Yield(YieldedStages[Len(YieldedStages)])
              /\ UNCHANGED <<hb_since, hb_before>>
         ELSE YieldHeartbeat
    /\ UNCHANGED <<gpc, idle_since, outcome, usage_stat, stage_updates,
                   task_done, task_result>>
    /\ UNCHANGED task_vars
    /\ UNCHANGED svc_vars

\* HandleTimeout that discards an update which arrived in the meantime.
HandleTimeout_TakesItem ==
    /\ gpc = "loop"
    /\ timer_fired
    /\ timer_fired' = FALSE
    /\ elapsed' = elapsed + heartbeat_interval
    /\ YieldHeartbeat
    /\ stage_updates' =
           IF stage_updates # <<>> THEN Tail(stage_updates) ELSE stage_updates
    /\ UNCHANGED <<gpc, idle_since, outcome, usage_stat, task_done,
                   task_result>>
    /\ UNCHANGED task_vars
    /\ UNCHANGED svc_vars

\* except asyncio.TimeoutError: elapsed += heartbeat_interval; yield heartbeat
HandleTimeout ==
    /\ gpc = "loop"
    /\ timer_fired
    /\ timer_fired' = FALSE
    /\ elapsed' = elapsed + heartbeat_interval
    /\ YieldHeartbeat
    /\ UNCHANGED <<gpc, idle_since, outcome, usage_stat, stage_updates,
                   task_done, task_result>>
    /\ UNCHANGED task_vars
    /\ UNCHANGED svc_vars

\* the while condition fails: if elapsed >= total_timeout: yield timeout
LoopDeadline ==
    /\ gpc = "loop"
    /\ ~timer_fired
    /\ elapsed >= total_timeout
    /\ Yield("timeout")
    /\ gpc' = "wait_done"
    /\ UNCHANGED <<hb_since, hb_before, idle_since, timer_fired, elapsed,
                   outcome, usage_stat, stage_updates, task_done, task_result>>
    /\ UNCHANGED task_vars
    /\ UNCHANGED svc_vars

\* WaitTaskDone without the ten-second limit: await task_done.wait().
WaitTaskDone_NoLimit ==
    /\ gpc = "wait_done"
    /\ task_done
    /\ gpc' = "result"
    /\ UNCHANGED <<yielded, hb_since, hb_before, idle_since, timer_fired,
                   elapsed, outcome, usage_stat, stage_updates, task_done,
                   task_result>>
    /\ UNCHANGED task_vars
    /\ UNCHANGED svc_vars

\* await wait_for(task_done.wait(), timeout=10): the event is set, or the
\* ten seconds pass without it (except asyncio.TimeoutError: pass).
WaitTaskDone ==
    /\ gpc = "wait_done"
    /\ \/ task_done
       \/ ~task_done /\ ~TaskReady
    /\ gpc' = "result"
    /\ UNCHANGED <<yielded, hb_since, hb_before, idle_since, timer_fired,
                   elapsed, outcome, usage_stat, stage_updates, task_done,
                   task_result>>
    /\ UNCHANGED task_vars
    /\ UNCHANGED svc_vars

\* if task_result["error"] ... elif task_result["result"] ... else ...
\* (json.dumps of a result built by run_consilium does not raise: it holds
\* strings, numbers and what json.loads returned.)
YieldFinal ==
    /\ gpc = "result"
    /\ IF task_result.error # NoError
         THEN /\ Yield("error")
              /\ outcome' = [success |-> FALSE, error_msg |-> task_result.error]
         ELSE IF task_result.result # NoResult
                THEN /\ Yield("complete")
                     /\ outcome' = [success |-> TRUE, error_msg |-> "None"]
                ELSE /\ Yield("error")
                     /\ outcome' = [success |-> FALSE, error_msg |-> "unknown"]
    /\ gpc' = "stats"
    /\ UNCHANGED <<hb_since, hb_before, idle_since, timer_fired, elapsed,
                   usage_stat, stage_updates, task_done, task_result>>
    /\ UNCHANGED task_vars
    /\ UNCHANGED svc_vars

\* Finish that returns without the end-of-stream marker after an error.
Finish_NoMarkerOnError ==
    /\ gpc = "stats"
    /\ usage_stat' = Append(usage_stat, outcome)
    /\ IF outcome.success THEN Yield("DONE") ELSE UNCHANGED yielded
    /\ gpc' = "done"
    /\ UNCHANGED <<hb_since, hb_before, idle_since, timer_fired, elapsed,
                   outcome, stage_updates, task_done, task_result>>
    /\ UNCHANGED task_vars
    /\ UNCHANGED svc_vars

\* save_usage_stat(...); yield "data: [DONE]"
Finish ==
    /\ gpc = "stats"
    /\ usage_stat' = Append(usage_stat, outcome)
    /\ Yield("DONE")
    /\ gpc' = "done"
    /\ UNCHANGED <<hb_since, hb_before, idle_since, timer_fired, elapsed,
                   outcome, stage_updates, task_done, task_result>>
    /\ UNCHANGED task_vars
    /\ UNCHANGED svc_vars

\* The transport stops consuming: the generator is closed (or cancelled) at
\* the yield or await it is suspended at.  generate() has no finally block:
\* its frame (elapsed, success, error_msg, a pending timeout) is dropped and
\* nothing else happens; what run_task's closure refers to stays.
Close ==
    /\ gpc \in {"spawn", "loop", "wait_done", "stats"}
    /\ gpc' = "closed"
    /\ elapsed' = 0
    /\ timer_fired' = FALSE
    /\ outcome' = [success |-> TRUE, error_msg |-> "None"]
    /\ hb_since' = 0
    /\ idle_since' = 0
    /\ UNCHANGED <<yielded, hb_before, usage_stat, stage_updates, task_done,
                   task_result>>
    /\ UNCHANGED task_vars
    /\ UNCHANGED svc_vars

Consumer ==
    \/ GenStarting
    \/ GenCreateTask
    \/ LoopGet
    \/ TimerFires
    \/ HandleTimeout
    \/ LoopDeadline
    \/ WaitTaskDone
    \/ YieldFinal
    \/ Finish

-----------------------------------------------------------------------------
(* run_task(): the producer, running run_consilium(question,               *)
(* on_stage_update).  Queue.put on the unbounded queue does not suspend,   *)
(* so a stage event is put in the same step that starts the stage's calls. *)

\* on_stage_update(stage, message): await stage_updates.put({...})
on_stage_update(stage) ==
    /\ stage_updates' = Append(stage_updates, stage)
    /\ emitted' = Append(emitted, stage)

\* run_task's except / finally: record the error or the result, set
\* task_done, put the sentinel.
RunTaskEnd(result, error) ==
    /\ task_result' = [result |-> result, error |-> error]
    /\ task_done' = TRUE
    /\ stage_updates' = Append(stage_updates, Sentinel)
    /\ tpc' = "finished"

\* The opinions that are not flagged as errors:
\* [... for op in opinions.values() if not op.get("error")]
SuccessfulOpinions(ops) == {r \in ExpertSet : ops[r] # "error"}

\* run_consilium: stage_1 event, then stage_1_parallel_gather starts the
\* three expert calls and the searcher call with asyncio.gather.
Stage1Start ==
    /\ tpc = "created"
    /\ on_stage_update("stage_1")
    /\ calls' = [r \in GatherTasks |-> "running"]
    /\ ext_calls' = ext_calls + Cardinality(GatherTasks)
    /\ trace' = trace \o <<"stage_1", "Gathering", "call">>
    /\ tpc' = "gathering"
    /\ UNCHANGED <<opinions, search_error, review_data, review_input,
                   synth_input, task_done, task_result>>
    /\ UNCHANGED gen_vars
    /\ UNCHANGED svc_vars

\* One of the gathered calls returns or raises (get_model_opinion /
\* get_search_results; chat_completion raises after its retries).
CallSettles(r, res) ==
    /\ tpc = "gathering"
    /\ calls[r] = "running"
    /\ calls' = [calls EXCEPT ![r] = res]
    /\ UNCHANGED <<tpc, opinions, search_error, review_data, review_input,
                   synth_input, emitted, ext_calls, trace, stage_updates,
                   task_done, task_result>>
    /\ UNCHANGED gen_vars
    /\ UNCHANGED svc_vars

\* Stage1Return with gather(*tasks) left at return_exceptions=False: the
\* first call that fails ends the wait while other calls are still running.
Stage1Return_FirstException ==
    /\ tpc = "gathering"
    /\ \/ \A r \in GatherTasks : calls[r] \in {"ok", "failed"}
       \/ \E r \in GatherTasks : calls[r] = "failed"
    /\ opinions' = [r \in ExpertSet |->
                       IF calls[r] = "failed" THEN "error" ELSE "ok"]
    /\ search_error' = IF calls["searcher"] = "failed" THEN "error" ELSE "ok"
    /\ trace' = Append(trace, "return")
    /\ tpc' = "gathered"
    /\ UNCHANGED <<calls, review_data, review_input, synth_input, emitted,
                   ext_calls, stage_updates, task_done, task_result>>
    /\ UNCHANGED gen_vars
    /\ UNCHANGED svc_vars

\* Stage1Return that goes straight to synthesis, with empty review data,
\* when no expert call succeeded.
Stage1Return_SkipsReview ==
    /\ tpc = "gathering"
    /\ \A r \in GatherTasks : calls[r] \in {"ok", "failed"}
    /\ opinions' = [r \in ExpertSet |->
                       IF calls[r] = "failed" THEN "error" ELSE "ok"]
    /\ search_error' = IF calls["searcher"] = "failed" THEN "error" ELSE "ok"
    /\ trace' = Append(trace, "return")
    /\ IF \A r \in ExpertSet : calls[r] = "failed"
         THEN tpc' = "reviewed" /\ review_data' = "empty"
         ELSE tpc' = "gathered" /\ UNCHANGED review_data
    /\ UNCHANGED <<calls, review_input, synth_input, emitted,
                   ext_calls, stage_updates, task_done, task_result>>
    /\ UNCHANGED gen_vars
    /\ UNCHANGED svc_vars

\* gather(..., return_exceptions=True) returns once every call has settled;
\* the opinions and search_results are built from the results.
Stage1Return ==
    /\ tpc = "gathering"
    /\ \A r \in GatherTasks : calls[r] \in {"ok", "failed"}
    /\ opinions' = [r \in ExpertSet |->
                       IF calls[r] = "failed" THEN "error" ELSE "ok"]
    /\ search_error' = IF calls["searcher"] = "failed" THEN "error" ELSE "ok"
    /\ trace' = Append(trace, "return")
    /\ tpc' = "gathered"
    /\ UNCHANGED <<calls, review_data, review_input, synth_input, emitted,
                   ext_calls, stage_updates, task_done, task_result>>
    /\ UNCHANGED gen_vars
    /\ UNCHANGED svc_vars

\* Stage2Start with the stage_2 event put after the reviewer call is issued.
Stage2Start_EventAfterCall ==
    /\ tpc = "gathered"
    /\ on_stage_update("stage_2")
    /\ review_input' = SuccessfulOpinions(opinions)
    /\ ext_calls' = ext_calls + 1
    /\ trace' = trace \o <<"Reviewing", "call", "stage_2">>
    /\ tpc' = "reviewing"
    /\ UNCHANGED <<calls, opinions, search_error, review_data, synth_input,
                   task_done, task_result>>
    /\ UNCHANGED gen_vars
    /\ UNCHANGED svc_vars

\* run_consilium: stage_2 event, then stage_2_peer_review builds its prompt
\* from the successful opinions and issues the reviewer call.
Stage2Start ==
    /\ tpc = "gathered"
    /\ on_stage_update("stage_2")
    /\ review_input' = SuccessfulOpinions(opinions)
    /\ ext_calls' = ext_calls + 1
    /\ trace' = trace \o <<"stage_2", "Reviewing", "call">>
    /\ tpc' = "reviewing"
    /\ UNCHANGED <<calls, opinions, search_error, review_data, synth_input,
                   task_done, task_result>>
    /\ UNCHANGED gen_vars
    /\ UNCHANGED svc_vars

ReviewResponses ==
    {"call_failed", "no_json", "invalid_json", "json_cases_objects",
     "json_cases_not_objects"}

\* stage_2_peer_review's try block: what review_data["cases"] is for each
\* kind of reviewer response.
ReviewCases(resp) ==
    CASE resp = "json_cases_objects" -> "objects"
      [] resp = "json_cases_not_objects" -> "not_objects"
      [] OTHER -> "empty"

\* The reviewer call settles and stage_2_peer_review returns.
Stage2Return(resp) ==
    /\ tpc = "reviewing"
    /\ review_data' = ReviewCases(resp)
    /\ trace' = Append(trace, "return")
    /\ tpc' = "reviewed"
    /\ UNCHANGED <<calls, opinions, search_error, review_input, synth_input,
                   emitted, ext_calls, stage_updates, task_done, task_result>>
    /\ UNCHANGED gen_vars
    /\ UNCHANGED svc_vars

\* run_consilium: stage_3 event, then stage_3_final_synthesis builds its
\* prompt.  The loop over cases calls case.get(...) outside the try block:
\* an item that is not an object raises, run_consilium raises, and run_task
\* records the error.  Otherwise the synthesis call is issued.
Stage3Start ==
    /\ tpc = "reviewed"
    /\ emitted' = Append(emitted, "stage_3")
    /\ IF review_data = "not_objects"
         THEN /\ task_result' = [result |-> NoResult, error |-> "AttributeError"]
              /\ task_done' = TRUE
              /\ stage_updates' =
                     Append(Append(stage_updates, "stage_3"), Sentinel)
              /\ tpc' = "finished"
              /\ trace' = trace \o <<"stage_3", "Synthesizing">>
              /\ UNCHANGED <<synth_input, ext_calls>>
         ELSE /\ stage_updates' = Append(stage_updates, "stage_3")
              /\ synth_input' = SuccessfulOpinions(opinions)
              /\ ext_calls' = ext_calls + 1
              /\ trace' = trace \o <<"stage_3", "Synthesizing", "call">>
              /\ tpc' = "synthesizing"
              /\ UNCHANGED <<task_done, task_result>>
    /\ UNCHANGED <<calls, opinions, search_error, review_data, review_input>>
    /\ UNCHANGED gen_vars
    /\ UNCHANGED svc_vars

\* Stage3Return with a stage_3_final_synthesis that lets the failure of the
\* synthesis call escape: run_consilium raises and run_task records the error.
Stage3Return_Raises(res) ==
    /\ tpc = "synthesizing"
    /\ IF res = "ok"
         THEN RunTaskEnd([kind |-> "result", final_answer |-> "text"], NoError)
         ELSE RunTaskEnd(NoResult, "synthesis_error")
    /\ trace' = Append(trace, "return")
    /\ UNCHANGED <<calls, opinions, search_error, review_data, review_input,
                   synth_input, emitted, ext_calls>>
    /\ UNCHANGED gen_vars
    /\ UNCHANGED svc_vars

\* The synthesis call settles: stage_3_final_synthesis returns the cleaned
\* text, or the placeholder if the call raised; run_consilium returns the
\* result and run_task records it.
Stage3Return(res) ==
    /\ tpc = "synthesizing"
    /\ RunTaskEnd([kind |-> "result",
                   final_answer |-> IF res = "ok" THEN "text" ELSE "placeholder"],
                  NoError)
    /\ trace' = Append(trace, "return")
    /\ UNCHANGED <<calls, opinions, search_error, review_data, review_input,
                   synth_input, emitted, ext_calls>>
    /\ UNCHANGED gen_vars
    /\ UNCHANGED svc_vars

Producer ==
    \/ Stage1Start
    \/ \E r \in GatherTasks, res \in {"ok", "failed"} : CallSettles(r, res)
    \/ Stage1Return
    \/ Stage2Start
    \/ \E resp \in ReviewResponses : Stage2Return(resp)
    \/ Stage3Start
    \/ \E res \in {"ok", "failed"} : Stage3Return(res)

\* The steps run_task takes by itself, without waiting for anything.
TaskRuns ==
    \/ Stage1Start
    \/ Stage1Return
    \/ Stage2Start
    \/ Stage3Start

Next == Consumer \/ Close \/ Producer

Spec == Init /\ [][Next]_vars

\* The event loop runs a task that is ready and timers run out; the
\* transport keeps reading unless it closes the stream.  Nothing is assumed
\* of the external services: a call may never settle.
LiveSpec == Init /\ [][Next]_vars /\ WF_vars(Consumer) /\ WF_vars(TaskRuns)

-----------------------------------------------------------------------------
(* chat_completion(model, messages, ...) of services/openrouter.py: one    *)
(* call, with max_retries at its default.  Each HTTP request has one of the *)
(* upstream outcomes below; time.sleep() blocks the calling thread, so a   *)
(* wait is part of the step that handles the outcome.                      *)

max_retries == 3

\* if response.status_code in [429, 500, 502, 503, 504]
RetryStatuses == {429, 500, 502, 503, 504}

\* What requests.post can do: return a response with some status code,
\* raise Timeout, or raise another RequestException that carries no response
\* (a connection error).
UpstreamOutcomes ==
    [kind : {"response"},
     status : {200, 400, 404, 429, 500, 501, 502, 503, 504}]
        \cup [kind : {"timeout", "connection_error"}, status : {0}]

LastRequest == requests[Len(requests)]

\* wait_time = (2 ** attempt) * 2
wait_time(a) == (2 ^ a) * 2

ChatInit ==
    /\ StreamInit
    /\ MoreIdle
    /\ VerifyIdle
    /\ ExtractIdle
    /\ cc_pc = "loop"
    /\ attempt = 0
    /\ requests = <<>>
    /\ sleeps = <<>>

\* ChatRequest with the loop running for attempt in range(max_retries + 1).
ChatRequest_OneMore(o) ==
    /\ cc_pc = "loop"
    /\ attempt <= max_retries
    /\ requests' = Append(requests, o)
    /\ cc_pc' = "response"
    /\ UNCHANGED <<attempt, sleeps>>
    /\ UNCHANGED <<stream_vars, verify_vars, extract_vars, more_vars>>

\* for attempt in range(max_retries): response = requests.post(...)
ChatRequest(o) ==
    /\ cc_pc = "loop"
    /\ attempt < max_retries
    /\ requests' = Append(requests, o)
    /\ cc_pc' = "response"
    /\ UNCHANGED <<attempt, sleeps>>
    /\ UNCHANGED <<stream_vars, verify_vars, extract_vars, more_vars>>

\* time.sleep(wait_time), then the next iteration of the loop.
ChatBackoff ==
    /\ sleeps' = Append(sleeps, wait_time(attempt))
    /\ attempt' = attempt + 1
    /\ cc_pc' = "loop"

\* ChatHandle without the re-raise of client errors: every RequestException
\* is waited out and retried.
ChatHandle_RetriesClientError ==
    /\ cc_pc = "response"
    /\ IF LastRequest.kind = "response" /\ LastRequest.status = 200
         THEN /\ cc_pc' = "returned"
              /\ UNCHANGED <<attempt, sleeps>>
         ELSE ChatBackoff
    /\ UNCHANGED requests
    /\ UNCHANGED <<stream_vars, verify_vars, extract_vars, more_vars>>

\* The rest of the loop body.  A status in RetryStatuses: sleep, continue.
\* Otherwise raise_for_status(): a status below 400 returns response.json();
\* a status of 400 or more raises HTTPError, a RequestException carrying the
\* response, which is re-raised for 4xx other than 429 and waited out
\* otherwise.  Timeout and RequestException without a response: sleep.
ChatHandle ==
    /\ cc_pc = "response"
    /\ LET o == LastRequest IN
       IF o.kind = "response" /\ o.status \in RetryStatuses
         THEN ChatBackoff
         ELSE IF o.kind = "response" /\ o.status < 400
           THEN /\ cc_pc' = "returned"
                /\ UNCHANGED <<attempt, sleeps>>
           ELSE IF o.kind = "timeout"
             THEN ChatBackoff
             ELSE IF /\ o.kind = "response"
                     /\ 400 <= o.status /\ o.status < 500
                     /\ o.status # 429
               THEN /\ cc_pc' = "raised"
                    /\ UNCHANGED <<attempt, sleeps>>
               ELSE ChatBackoff
    /\ UNCHANGED requests
    /\ UNCHANGED <<stream_vars, verify_vars, extract_vars, more_vars>>

\* The loop is over: raise Exception("Failed to get response ... ")
ChatGiveUp ==
    /\ cc_pc = "loop"
    /\ attempt >= max_retries
    /\ cc_pc' = "failed"
    /\ UNCHANGED <<attempt, requests, sleeps>>
    /\ UNCHANGED <<stream_vars, verify_vars, extract_vars, more_vars>>

ChatNext ==
    \/ \E o \in UpstreamOutcomes : ChatRequest(o)
    \/ ChatHandle
    \/ ChatGiveUp

ChatSpec == ChatInit /\ [][ChatNext]_vars

-----------------------------------------------------------------------------
(* _verify_cases(cases) of services/court_practice_search.py: each case    *)
(* with a case number is checked with DaMIA (verify_case_damia) and, if    *)
(* DaMIA does not confirm it, with Perplexity (_verify_with_perplexity).   *)
(* A case stands for its position in cases and its case_number.            *)

MaxVerify == 2

CaseNumbers == {"", "A40-1000/2024", "A60-50000/2023"}

VerifyInputs == UNION {[1..n -> CaseNumbers] : n \in 0..MaxVerify}

\* What verify_case_damia returns: the case was found, it was not found
\* (error None), or the request failed; it never raises.
\* What can happen to the DaMIA lookup of one case: the API key is not
\* configured, the request times out, fails otherwise or something else
\* raises, or a response arrives: 200 with a body that lists the case, does
\* not list it, is empty or is not JSON, 404, or another status.
DamiaOutcomes ==
    {"no_key", "timeout", "request_error", "unexpected_exception",
     "http_200_match", "http_200_no_match", "http_200_empty",
     "http_200_not_json", "http_404", "http_500"}

\* verify_case_damia(case_number): "exists" and whether "error" is set.
verify_case_damia(o) ==
    IF o = "no_key" THEN [exists |-> FALSE, error |-> "error"]
    ELSE IF o = "http_200_match" THEN [exists |-> TRUE, error |-> "None"]
    ELSE IF o \in {"http_200_no_match", "http_200_empty", "http_404"}
      THEN [exists |-> FALSE, error |-> "None"]
    ELSE [exists |-> FALSE, error |-> "error"]

\* The results verify_case_damia can return.
DamiaResults == {verify_case_damia(o) : o \in DamiaOutcomes}

\* What the Perplexity call can produce: it raises, its text has no
\* {...}, the text matched is not valid JSON, or it is a JSON object whose
\* "exists" is true, false or missing and whose "confidence" is one of the
\* three levels, something else, or missing.
PerplexityResponses ==
    [kind : {"call_failed", "no_json", "invalid_json"},
     exists : {"absent"}, confidence : {"absent"}]
        \cup [kind : {"json"}, exists : {"true", "false", "absent"},
               confidence : {"high", "medium", "low", "other", "absent"}]

\* _verify_with_perplexity: the dict it returns for each response.
_verify_with_perplexity(resp) ==
    CASE resp.kind = "json" ->
             [exists |-> resp.exists, confidence |-> resp.confidence,
              error |-> FALSE]
      [] resp.kind = "no_json" ->
             [exists |-> "false", confidence |-> "absent", error |-> FALSE]
      [] OTHER ->
             [exists |-> "false", confidence |-> "absent", error |-> TRUE]

\* perplexity_result.get("exists", False), as the if statement tests it
perplexity_exists(result) == result.exists = "true"

\* perplexity_confidence with "medium" as the default.
perplexity_confidence_DefaultMedium(result) ==
    IF result.confidence = "absent" THEN "medium" ELSE result.confidence

\* perplexity_result.get("confidence", "low")
perplexity_confidence(result) ==
    IF result.confidence = "absent" THEN "low" ELSE result.confidence

\* perplexity_status with only "high" counted as verified.
perplexity_status_HighOnly(result) ==
    IF perplexity_exists(result) /\ perplexity_confidence(result) = "high"
      THEN "VERIFIED"
      ELSE IF perplexity_exists(result) THEN "LIKELY_EXISTS" ELSE "NOT_FOUND"

\* if perplexity_exists and perplexity_confidence in ["high", "medium"]: ...
perplexity_status(result) ==
    IF /\ perplexity_exists(result)
       /\ perplexity_confidence(result) \in {"high", "medium"}
      THEN "VERIFIED"
      ELSE IF perplexity_exists(result) THEN "LIKELY_EXISTS" ELSE "NOT_FOUND"

NoPerplexityResult == [exists |-> "absent", confidence |-> "absent", error |-> FALSE]

VerifyInit ==
    /\ StreamInit
    /\ MoreIdle
    /\ ChatIdle
    /\ ExtractIdle
    /\ vc_pc = "loop"
    /\ vc_cases \in VerifyInputs
    /\ vc_i = 1
    /\ verified_cases = <<>>
    /\ vc_queries = <<>>
    /\ damia_result = NoDamiaResult

\* case_number = case.get("case_number", ""); if not case_number: continue
VerifySkip ==
    /\ vc_pc = "loop"
    /\ vc_i <= Len(vc_cases)
    /\ vc_cases[vc_i] = ""
    /\ vc_i' = vc_i + 1
    /\ UNCHANGED <<vc_pc, vc_cases, verified_cases, vc_queries, damia_result>>
    /\ UNCHANGED <<stream_vars, chat_vars, extract_vars, more_vars>>

\* The record appended when DaMIA confirms the case.
DamiaVerified(i) ==
    [case |-> i, case_number |-> vc_cases[i], status |-> "VERIFIED",
     verification_source |-> "damia_api", exists |-> TRUE,
     confidence |-> "high", damia_error |-> "None",
     perplexity_result |-> NoPerplexityResult]

\* VerifyDamia without the continue after the DaMIA record is appended: the
\* loop body goes on to the Perplexity check.
VerifyDamia_NoContinue(d) ==
    /\ vc_pc = "loop"
    /\ vc_i <= Len(vc_cases)
    /\ vc_cases[vc_i] # ""
    /\ damia_result' = d
    /\ vc_queries' = Append(vc_queries,
                            [source |-> "damia", case |-> vc_i, exists |-> d.exists])
    /\ verified_cases' =
           IF d.exists THEN Append(verified_cases, DamiaVerified(vc_i))
                       ELSE verified_cases
    /\ vc_pc' = "perplexity"
    /\ UNCHANGED <<vc_cases, vc_i>>
    /\ UNCHANGED <<stream_vars, chat_vars, extract_vars, more_vars>>

\* VerifyDamia with a lookup whose failure is raised instead of returned in
\* the "error" field: the exception leaves _verify_cases.
VerifyDamia_RaisesOnError(d) ==
    /\ vc_pc = "loop"
    /\ vc_i <= Len(vc_cases)
    /\ vc_cases[vc_i] # ""
    /\ vc_queries' = Append(vc_queries,
                            [source |-> "damia", case |-> vc_i, exists |-> d.exists])
    /\ IF d.error = "error"
         THEN /\ vc_pc' = "raised"
              /\ UNCHANGED <<verified_cases, vc_i, damia_result>>
         ELSE /\ damia_result' = d
              /\ IF d.exists
                   THEN /\ verified_cases' =
                              Append(verified_cases, DamiaVerified(vc_i))
                        /\ vc_i' = vc_i + 1
                        /\ UNCHANGED vc_pc
                   ELSE /\ vc_pc' = "perplexity"
                        /\ UNCHANGED <<verified_cases, vc_i>>
    /\ UNCHANGED vc_cases
    /\ UNCHANGED <<stream_vars, chat_vars, extract_vars, more_vars>>

\* damia_result = await verify_case_damia(case_number); if it reports
\* that the case exists the VERIFIED record is appended and the loop goes to
\* the next case, otherwise the Perplexity check follows.
VerifyDamia(d) ==
    /\ vc_pc = "loop"
    /\ vc_i <= Len(vc_cases)
    /\ vc_cases[vc_i] # ""
    /\ damia_result' = d
    /\ vc_queries' = Append(vc_queries,
                            [source |-> "damia", case |-> vc_i, exists |-> d.exists])
    /\ IF d.exists
         THEN /\ verified_cases' = Append(verified_cases, DamiaVerified(vc_i))
              /\ vc_i' = vc_i + 1
              /\ UNCHANGED vc_pc
         ELSE /\ vc_pc' = "perplexity"
              /\ UNCHANGED <<verified_cases, vc_i>>
    /\ UNCHANGED vc_cases
    /\ UNCHANGED <<stream_vars, chat_vars, extract_vars, more_vars>>

\* perplexity_result = await _verify_with_perplexity(case_number); the
\* status is worked out and the record appended.
VerifyPerplexity(resp) ==
    /\ vc_pc = "perplexity"
    /\ LET result == _verify_with_perplexity(resp) IN
         /\ vc_queries' =
                Append(vc_queries,
                       [source |-> "perplexity", case |-> vc_i,
                        exists |-> perplexity_exists(result)])
         /\ verified_cases' =
                Append(verified_cases,
                       [case |-> vc_i, case_number |-> vc_cases[vc_i],
                        status |-> perplexity_status(result),
                        verification_source |-> "perplexity",
                        exists |-> perplexity_exists(result),
                        confidence |-> perplexity_confidence(result),
                        damia_error |-> damia_result.error,
                        perplexity_result |-> result])
    /\ vc_i' = vc_i + 1
    /\ vc_pc' = "loop"
    /\ UNCHANGED <<vc_cases, damia_result>>
    /\ UNCHANGED <<stream_vars, chat_vars, extract_vars, more_vars>>

\* return verified_cases
VerifyReturn ==
    /\ vc_pc = "loop"
    /\ vc_i > Len(vc_cases)
    /\ vc_pc' = "returned"
    /\ UNCHANGED <<vc_cases, vc_i, verified_cases, vc_queries, damia_result>>
    /\ UNCHANGED <<stream_vars, chat_vars, extract_vars, more_vars>>

VerifyNext ==
    \/ VerifySkip
    \/ \E d \in DamiaResults : VerifyDamia(d)
    \/ \E resp \in PerplexityResponses : VerifyPerplexity(resp)
    \/ VerifyReturn

VerifySpec == VerifyInit /\ [][VerifyNext]_vars

\* verify_case_with_google(case_number) of services/google_search.py: the
\* verdict for a search that found the case or not, with so many sources on
\* the official court sites and so many other sources.
verify_case_with_google(found, legal_sources_count, other_sources) ==
    IF ~found
      THEN [exists |-> FALSE, confidence |-> "low"]
      ELSE IF legal_sources_count >= 2
        THEN [exists |-> TRUE, confidence |-> "high"]
        ELSE IF legal_sources_count = 1
          THEN [exists |-> TRUE, confidence |-> "medium"]
          ELSE IF legal_sources_count + other_sources > 0
            THEN [exists |-> TRUE, confidence |-> "low"]
            ELSE [exists |-> FALSE, confidence |-> "low"]

-----------------------------------------------------------------------------
(* _extract_case_numbers(search_text) of                                    *)
(* services/court_practice_search.py: the extraction model is called, the  *)
(* JSON object in its answer is parsed and data["cases"] is deduplicated   *)
(* by case number.  A case number is a sequence of characters; "a" and "A" *)
(* stand for a letter in its two cases.                                    *)

MaxCases == 3

\* str.upper() and str.lower() on one character
upper_char(c) == IF c = "a" THEN "A" ELSE c
lower_char(c) == IF c = "A" THEN "a" ELSE c

\* str.upper(), str.lower()
upper(s) == [i \in 1..Len(s) |-> upper_char(s[i])]
lower(s) == [i \in 1..Len(s) |-> lower_char(s[i])]

IsSpace(c) == c = " "
NotSpace(c) == c # " "

\* str.strip(): leading and trailing whitespace removed
RECURSIVE strip(_)
strip(s) ==
    IF s = <<>> THEN s
    ELSE IF IsSpace(Head(s)) THEN strip(Tail(s))
    ELSE IF IsSpace(s[Len(s)]) THEN strip(SubSeq(s, 1, Len(s) - 1))
    ELSE s

\* str.replace(" ", "")
remove_spaces(s) == SelectSeq(s, NotSpace)

\* damia.py: case_number.strip().lower().replace(" ", "")
_normalize_case_number(case_number) == remove_spaces(lower(strip(case_number)))

\* The case numbers the model's answer may hold.
CaseNumberStrings ==
    {<<>>, <<" ">>,
     <<"a", "4", "0">>, <<"A", "4", "0">>,
     <<" ", "a", "4", "0">>, <<"a", "4", "0", " ">>,
     <<"a", "4", " ", "0">>, <<"A", " ", "4", "0">>,
     <<"a", "4", "1">>}

\* An item of data["cases"]: an object whose "case_number" is a string, is
\* missing or is null, or something that is not an object.
CaseItems ==
    [kind : {"string"}, case_number : CaseNumberStrings]
        \cup [kind : {"missing", "null", "not_object"}, case_number : {<<>>}]

\* What the extraction call can produce: it raises, its text has no {...},
\* the text matched is not valid JSON, or it is a JSON object with a list of
\* cases.
ExtractResponses ==
    [kind : {"call_failed", "no_json", "invalid_json"}, cases : {<<>>}]
        \cup [kind : {"json"},
               cases : UNION {[1..n -> CaseItems] : n \in 0..MaxCases}]

\* case_num without the upper(): case.get("case_number", "").strip()
case_num_NoUpper(case) == strip(case.case_number)

\* case_num = case.get("case_number", "").strip().upper()
case_num(case) == upper(strip(case.case_number))

\* case.get(...) on something that is not an object, or .strip() on None,
\* raises AttributeError.
Raises(case) == case.kind \in {"null", "not_object"}

\* The loop over cases, from index i on, with the keys seen so far:
\* if case_num and case_num not in seen: seen.add(...); unique_cases.append(case)
RECURSIVE dedup_loop(_, _, _)
dedup_loop(cases, i, seen) ==
    IF i > Len(cases) THEN <<>>
    ELSE IF case_num(cases[i]) # <<>> /\ case_num(cases[i]) \notin seen
      THEN <<cases[i]>> \o dedup_loop(cases, i + 1, seen \cup {case_num(cases[i])})
      ELSE dedup_loop(cases, i + 1, seen)

\* The value _extract_case_numbers returns: the deduplicated list, or [] if
\* no JSON object was found or anything in the try block raised.
_extract_case_numbers(response) ==
    IF response.kind # "json" THEN <<>>
    ELSE IF \E i \in 1..Len(response.cases) : Raises(response.cases[i]) THEN <<>>
    ELSE dedup_loop(response.cases, 1, {})

ExtractInit ==
    /\ StreamInit
    /\ MoreIdle
    /\ ChatIdle
    /\ VerifyIdle
    /\ ex_pc = "called"
    /\ ex_response \in ExtractResponses
    /\ unique_cases = <<>>

\* ExtractReturn with the loop over the cases outside the try block: an
\* item that makes case.get(...).strip() raise makes the function raise.
ExtractReturn_LoopOutsideTry ==
    /\ ex_pc = "called"
    /\ unique_cases' = _extract_case_numbers(ex_response)
    /\ ex_pc' = IF /\ ex_response.kind = "json"
                   /\ \E i \in 1..Len(ex_response.cases) :
                          Raises(ex_response.cases[i])
                  THEN "raised" ELSE "returned"
    /\ UNCHANGED ex_response
    /\ UNCHANGED <<stream_vars, chat_vars, verify_vars, more_vars>>

\* return unique_cases inside the try block, return [] after it.

ExtractReturn ==
    /\ ex_pc = "called"
    /\ unique_cases' = _extract_case_numbers(ex_response)
    /\ ex_pc' = "returned"
    /\ UNCHANGED ex_response
    /\ UNCHANGED <<stream_vars, chat_vars, verify_vars, more_vars>>

ExtractNext == ExtractReturn

ExtractSpec == ExtractInit /\ [][ExtractNext]_vars

-----------------------------------------------------------------------------
(* Properties of the stream and the pipeline *)

TerminalCount == Count(yielded, "complete") + Count(yielded, "error")
QueuedStages == SelectSeq(stage_updates, IsStage)
ExpertsFailed == {r \in ExpertSet : calls[r] = "failed"}
GatherReturned == tpc \in {"gathered", "reviewing", "reviewed", "synthesizing", "finished"}
NoDuplicates(s) == \A i, j \in 1..Len(s) : s[i] = s[j] => i = j

\* C1: the stage events yielded to the caller are, in order, the first
\* stage events on_stage_update put on the queue, and none is yielded twice,
\* whatever heartbeats were emitted in between.
C1_StageEventsInEmissionOrder ==
    /\ IsPrefix(YieldedStages, emitted)
    /\ NoDuplicates(YieldedStages)

\* C1 witness: all three stage events were yielded, with heartbeats before
\* and after the first of them.
C1_Witness ==
    /\ Len(YieldedStages) = 3
    /\ hb_before
    /\ hb_since > 0

\* C2: when the final complete/error event is yielded after the pipeline
\* has put its sentinel, every stage event the pipeline put has been
\* yielded before it.
C2_FinalEventAfterAllStageEvents ==
    [][(gpc = "result" /\ gpc' = "stats" /\ tpc = "finished")
          => YieldedStages = emitted]_vars

\* C3: in every fair behaviour in which the transport keeps reading, the
\* generator reaches its end having yielded exactly one terminal event
\* (complete or error), whether or not the pipeline task ever finishes.
C3_StreamTerminates ==
    <>(gpc = "closed" \/ (gpc = "done" /\ TerminalCount = 1))

\* C3 witness: the stream has ended with its one terminal event while a
\* call of the pipeline has still not settled.
C3_Witness ==
    /\ gpc = "done"
    /\ TerminalCount = 1
    /\ tpc = "gathering"

\* C4: the end-of-stream marker is yielded exactly when the generator runs
\* to its end, exactly once, directly after the terminal event and after
\* every stage event that was yielded, and nothing (no item, no heartbeat)
\* is yielded after it.
C4_DoneMarkerOnceAndLast ==
    /\ [](Emitted("DONE") <=> gpc = "done")
    /\ [](Emitted("DONE") =>
             /\ Count(yielded, "DONE") = 1
             /\ yielded[Len(yielded)] = "DONE"
             /\ Len(yielded) >= 2
             /\ IsTerminal(yielded[Len(yielded) - 1])
             /\ \A i \in 1..Len(yielded) :
                   IsStage(yielded[i]) => i < Len(yielded) - 1)
    /\ [][Emitted("DONE") => UNCHANGED <<yielded, hb_since>>]_vars

\* C4 witness: a stream that ended after an error event, having yielded
\* stage events and heartbeats.
C4_Witness ==
    /\ gpc = "done"
    /\ Emitted("error")
    /\ Len(YieldedStages) >= 2
    /\ hb_before

\* C5: the read loop spends at most total_timeout / heartbeat_interval idle
\* heartbeat intervals in all, however many stage events were delivered:
\* the heartbeats since the last stage event, and one more if there were any
\* before it, never exceed that number.
C5_TotalIdleBounded ==
    hb_since + (IF hb_before THEN 1 ELSE 0)
        <= total_timeout \div heartbeat_interval

\* C6: once the timeout event has been emitted the pipeline starts no
\* further stage and issues no further external text-generation call.
C6_NoPipelineWorkAfterTimeout ==
    [][Emitted("timeout") => (emitted' = emitted /\ ext_calls' = ext_calls)]_vars

\* C7: once the caller has stopped consuming the stream the pipeline task
\* does not go on to a further stage or a further external call.
C7_NoPipelineWorkAfterClose ==
    [][gpc = "closed" => (emitted' = emitted /\ ext_calls' = ext_calls)]_vars

\* C8: the heartbeats yielded since the last stage event are exactly the
\* heartbeat intervals that ran out with the queue empty since then (one
\* each, the one being handled included), and yielding a heartbeat leaves
\* the queue as it is.
C8_OneHeartbeatPerIdleInterval ==
    /\ [](hb_since + (IF timer_fired THEN 1 ELSE 0) = idle_since)
    /\ [][hb_since' = hb_since + 1 => stage_updates' = stage_updates]_vars

\* C8 witness: two heartbeats since the last stage event, none of them
\* pending, and an update that has arrived since is still queued.
C8_Witness ==
    /\ gpc = "loop"
    /\ YieldedStages # <<>>
    /\ hb_since = 2
    /\ idle_since = 2
    /\ QueuedStages # <<>>

\* C9: if every expert call failed, the pipeline issues no review or
\* synthesis call and the stream never yields complete.
C9_AllExpertsFailedPipelineFails ==
    (GatherReturned /\ ExpertsFailed = ExpertSet)
        => (ext_calls <= Cardinality(GatherTasks) /\ ~Emitted("complete"))

\* C10: if some but not all expert calls failed, then once the stream has
\* yielded its terminal event that event is complete, and review and
\* synthesis were given exactly the successful opinions.
C10_PartialFailureCompletes ==
    (GatherReturned /\ ExpertsFailed # {} /\ ExpertsFailed # ExpertSet
        /\ TerminalCount > 0)
        => /\ Emitted("complete")
           /\ review_input = ExpertSet \ ExpertsFailed
           /\ synth_input = ExpertSet \ ExpertsFailed

-----------------------------------------------------------------------------
(* Properties of run_consilium and stage_1_parallel_gather *)

PipelineStages ==
    {"Gathering", "Extracting", "Verifying", "Reviewing", "Synthesizing"}
IsPipelineStage(x) == x \in PipelineStages
StagesRun == SelectSeq(trace, IsPipelineStage)
RunSucceeded == tpc = "finished" /\ task_result.result # NoResult

\* What a complete run of run_consilium does, in program order.
CompleteTrace ==
    <<"stage_1", "Gathering", "call", "return",
      "stage_2", "Reviewing", "call", "return",
      "stage_3", "Synthesizing", "call", "return">>

\* C11: stage_1_parallel_gather starts all four calls; once it has returned
\* every call has settled and there is one opinion per expert role, flagged
\* as an error exactly if that expert's call failed; a settled call keeps
\* its result, and a call that fails leaves every other call as it was.
C11_GatherSettlesAllCalls ==
    /\ [](tpc = "gathering" => \A r \in GatherTasks : calls[r] # "idle")
    /\ [](GatherReturned =>
             /\ \A r \in GatherTasks : calls[r] \in {"ok", "failed"}
             /\ DOMAIN opinions = ExpertSet
             /\ \A r \in ExpertSet :
                   /\ opinions[r] \in {"ok", "error"}
                   /\ opinions[r] = "error" <=> calls[r] = "failed"
             /\ search_error = "error" <=> calls["searcher"] = "failed")
    /\ [][\A r \in GatherTasks :
             /\ calls[r] \in {"ok", "failed"} => calls'[r] = calls[r]
             /\ (calls[r] = "running" /\ calls'[r] = "failed") =>
                    \A q \in GatherTasks \ {r} : calls'[q] = calls[q]]_vars

\* C11 witness: the gather has returned with two calls failed (an expert
\* and the searcher) and the other two experts' results recorded.
C11_Witness ==
    /\ GatherReturned
    /\ calls["chairman"] = "failed" /\ opinions["chairman"] = "error"
    /\ calls["searcher"] = "failed" /\ search_error = "error"
    /\ opinions["expert_1"] = "ok" /\ opinions["expert_2"] = "ok"

C13_OneStageEventBeforeEachStage ==
    /\ IsPrefix(trace, CompleteTrace)
    /\ emitted = SelectSeq(trace, IsStage)
    /\ RunSucceeded => emitted = <<"stage_1", "stage_2", "stage_3">>
    /\ Emitted("complete") =>
          /\ emitted = <<"stage_1", "stage_2", "stage_3">>
          /\ \A i, j \in 1..Len(yielded) :
                (yielded[i] = "complete" /\ IsStage(yielded[j])) => j < i

\* C13 witness: complete was yielded after all three stage events.
C13_Witness ==
    /\ Emitted("complete")
    /\ YieldedStages = <<"stage_1", "stage_2", "stage_3">>

\* C14: whatever the reviewer call produced, a run that got as far as the
\* review ends with a result: run_consilium reaches synthesis and returns.
C14_ReviewOutputNeverFailsRun ==
    (tpc = "finished" /\ review_data # "unset") =>
        /\ task_result.error = NoError
        /\ task_result.result # NoResult

-----------------------------------------------------------------------------
(* Properties of chat_completion *)

IsSuccess(o) == o.kind = "response" /\ o.status < 400
IsClientError(o) ==
    /\ o.kind = "response"
    /\ 400 <= o.status /\ o.status <= 499
    /\ o.status # 429
IsRetryable(o) ==
    \/ o.kind = "timeout"
    \/ o.kind = "response" /\ (o.status = 429 \/ o.status >= 500)

\* C15: a client-error response (4xx other than 429) makes the call raise
\* in the step that handles it, with no further request and no wait for
\* that attempt; a timeout, a 429 or a 5xx is followed by another request
\* whenever fewer than max_retries requests have been made.
C15_ClientErrorFailsAtOnce ==
    /\ [](cc_pc = "raised" =>
             /\ IsClientError(LastRequest)
             /\ Len(sleeps) + 1 = Len(requests))
    /\ [][(cc_pc = "response" /\ IsClientError(LastRequest)) =>
             (cc_pc' = "raised" /\ requests' = requests /\ sleeps' = sleeps)]_vars
    /\ [][(cc_pc = "response" /\ IsRetryable(LastRequest)
               /\ Len(requests) < max_retries) =>
             (cc_pc' = "loop" /\ attempt' < max_retries)]_vars
    /\ [][(cc_pc = "loop" /\ attempt < max_retries) =>
             Len(requests') = Len(requests) + 1]_vars

\* C15 witness: the first request timed out and was retried, the second got
\* a 404 and the call raised after the single wait of the first attempt.
C15_Witness ==
    /\ cc_pc = "raised"
    /\ Len(requests) = 2
    /\ requests[1].kind = "timeout"
    /\ requests[2].status = 404
    /\ Len(sleeps) = 1

\* C16: one call makes at most max_retries requests, none after a
\* successful response, returns only on a successful response, and once the
\* last permitted request has failed its next step is to raise.
C16_AtMostMaxRetriesRequests ==
    /\ [](Len(requests) <= max_retries)
    /\ [](\A i \in 1..Len(requests) :
             i < Len(requests) => ~IsSuccess(requests[i]))
    /\ [](cc_pc = "returned" => IsSuccess(LastRequest))
    /\ [](cc_pc = "failed" =>
             Len(requests) = max_retries /\ ~IsSuccess(LastRequest))
    /\ [][(cc_pc = "loop" /\ Len(requests) = max_retries) =>
             (cc_pc' = "failed" /\ requests' = requests)]_vars

\* C16 witness: three requests failed (rate limit, server error, timeout)
\* and the call raised.
C16_Witness ==
    /\ cc_pc = "failed"
    /\ Len(requests) = max_retries
    /\ requests[1].status = 429
    /\ requests[2].status = 500
    /\ requests[3].kind = "timeout"

-----------------------------------------------------------------------------
(* Properties of _verify_cases *)

\* The status a secondary result calls for when taken alone.
SecondaryVerified(result) ==
    result.exists = "true" /\ result.confidence \in {"high", "medium"}
SecondaryLikely(result) ==
    result.exists = "true" /\ result.confidence \in {"low", "absent"}
SecondaryNotFound(result) == result.exists # "true"

\* The status of a set of secondary answers under the rule that the highest
\* confidence among the answers reporting existence decides.
CombinedStatus(answers) ==
    LET existing == {a \in answers : a.exists} IN
    IF existing = {} THEN "NOT_FOUND"
    ELSE IF \E a \in existing : a.confidence \in {"high", "medium"}
      THEN "VERIFIED"
      ELSE "LIKELY_EXISTS"

\* The answers verify_case_with_google can give.
GoogleAnswers ==
    {verify_case_with_google(f, l, o) : f \in BOOLEAN, l \in 0..2, o \in 0..1}

\* The answer of Perplexity as recorded in a result.
PerplexityAnswer(r) == [exists |-> r.exists, confidence |-> r.confidence]

\* C17: when DaMIA reports that a case exists, that case gets one result,
\* VERIFIED with confidence high from damia_api, and Perplexity is not
\* queried for it.
C17_DamiaHitVerifiedWithoutSecondary ==
    \A k \in 1..Len(vc_queries) :
        (vc_queries[k].source = "damia" /\ vc_queries[k].exists) =>
            /\ \A m \in 1..Len(vc_queries) :
                  vc_queries[m].source = "perplexity" =>
                      vc_queries[m].case # vc_queries[k].case
            /\ \E n \in 1..Len(verified_cases) :
                  verified_cases[n].case = vc_queries[k].case
            /\ \A n \in 1..Len(verified_cases) :
                  verified_cases[n].case = vc_queries[k].case =>
                      /\ verified_cases[n].status = "VERIFIED"
                      /\ verified_cases[n].confidence = "high"
                      /\ verified_cases[n].verification_source = "damia_api"

\* C17 witness: of two cases the first was confirmed by DaMIA and the
\* second went to Perplexity.
C17_Witness ==
    /\ vc_pc = "returned"
    /\ Len(verified_cases) = 2
    /\ verified_cases[1].verification_source = "damia_api"
    /\ verified_cases[2].verification_source = "perplexity"
    /\ Len(vc_queries) = 3

\* C18: a case DaMIA did not confirm gets its result from Perplexity, and
\* the status follows from the Perplexity result alone: VERIFIED for
\* existence with confidence high or medium, LIKELY_EXISTS for existence
\* with confidence low or none given, NOT_FOUND when existence is not
\* reported or the call failed.
C18_SecondaryResultAloneDecides ==
    /\ \A k \in 1..Len(vc_queries) :
          (vc_queries[k].source = "damia" /\ ~vc_queries[k].exists
              /\ vc_i > vc_queries[k].case) =>
              \E n \in 1..Len(verified_cases) :
                  /\ verified_cases[n].case = vc_queries[k].case
                  /\ verified_cases[n].verification_source = "perplexity"
    /\ \A n \in 1..Len(verified_cases) :
          verified_cases[n].verification_source = "perplexity" =>
              LET result == verified_cases[n].perplexity_result
                  status == verified_cases[n].status IN
              /\ SecondaryVerified(result) => status = "VERIFIED"
              /\ SecondaryLikely(result) => status = "LIKELY_EXISTS"
              /\ SecondaryNotFound(result) => status = "NOT_FOUND"
              /\ result.error => status = "NOT_FOUND"

\* C18 witness: after a DaMIA error a case with existence reported and no
\* confidence given is LIKELY_EXISTS, and a case whose Perplexity call
\* failed is NOT_FOUND.
C18_Witness ==
    /\ vc_pc = "returned"
    /\ Len(verified_cases) = 2
    /\ verified_cases[1].damia_error = "error"
    /\ verified_cases[1].perplexity_result.exists = "true"
    /\ verified_cases[1].perplexity_result.confidence = "absent"
    /\ verified_cases[1].status = "LIKELY_EXISTS"
    /\ verified_cases[2].perplexity_result.error
    /\ verified_cases[2].status = "NOT_FOUND"

-----------------------------------------------------------------------------
(* Properties of _extract_case_numbers *)

\* The key of a case number with leading and trailing whitespace stripped
\* and letter case folded.
StripFold(case_number) == lower(strip(case_number))

\* The indices of the cases kept: a non-empty key not held by an earlier case.
Kept(cases) ==
    {i \in 1..Len(cases) :
        /\ StripFold(cases[i].case_number) # <<>>
        /\ \A j \in 1..Len(cases) :
              j < i => StripFold(cases[j].case_number)
                           # StripFold(cases[i].case_number)}

Rank(cases, i) == Cardinality({k \in Kept(cases) : k <= i})

WellFormed(response) ==
    /\ response.kind = "json"
    /\ \A i \in 1..Len(response.cases) : ~Raises(response.cases[i])

\* C20 (as stated): no two cases returned have case numbers that are equal
\* after all whitespace is removed and letter case folded.
C20_NoTwoEqualWithoutWhitespace ==
    ex_pc = "returned" =>
        \A i, j \in 1..Len(unique_cases) :
            _normalize_case_number(unique_cases[i].case_number)
                = _normalize_case_number(unique_cases[j].case_number) => i = j

\* C20 (amended): no two cases returned have case numbers that are equal
\* after leading and trailing whitespace is stripped and letter case folded;
\* no case returned has an empty or all-whitespace number; and when the
\* answer parsed, the cases returned are the first case of each such key,
\* in their order.
C20_NoTwoEqualAfterStripAndFold ==
    ex_pc = "returned" =>
        /\ \A i, j \in 1..Len(unique_cases) :
              StripFold(unique_cases[i].case_number)
                  = StripFold(unique_cases[j].case_number) => i = j
        /\ \A i \in 1..Len(unique_cases) :
              strip(unique_cases[i].case_number) # <<>>
        /\ WellFormed(ex_response) =>
              /\ Len(unique_cases) = Cardinality(Kept(ex_response.cases))
              /\ \A i \in Kept(ex_response.cases) :
                    unique_cases[Rank(ex_response.cases, i)] = ex_response.cases[i]

\* C20 witness: of three cases the second differs from the first in letter
\* case only and is dropped; the third differs in inner whitespace only and
\* is kept.
C20_Witness ==
    /\ ex_pc = "returned"
    /\ Len(ex_response.cases) = 3
    /\ ex_response.cases[1].case_number = <<"a", "4", "0">>
    /\ ex_response.cases[2].case_number = <<"A", "4", "0">>
    /\ ex_response.cases[3].case_number = <<"a", "4", " ", "0">>
    /\ unique_cases = <<ex_response.cases[1], ex_response.cases[3]>>

-----------------------------------------------------------------------------
(* C27.  After the timeout event the stream yields nothing but one error   *)
(* event and the end-of-stream marker: no complete event follows timeout.  *)

AfterTimeout ==
    {j \in 1..Len(yielded) :
        \E i \in 1..Len(yielded) : i < j /\ yielded[i] = "timeout"}

\* C27: every item yielded after timeout is an error event or the
\* end-of-stream marker, and at most one of them is an error event.
C27_OnlyErrorAndMarkerAfterTimeout ==
    /\ \A j \in AfterTimeout : yielded[j] \in {"error", "DONE"}
    /\ Cardinality({j \in AfterTimeout : yielded[j] = "error"}) <= 1

-----------------------------------------------------------------------------
(* C28.  A failed synthesis call does not fail the run: the placeholder    *)
(* text is the final answer and the terminal event is complete.            *)

SynthesisFailed == task_result.result.final_answer = "placeholder"

-----------------------------------------------------------------------------
(* C30.  chat_completion backs off 2*2^k seconds after its k-th retryable  *)
(* failure, and only between attempts.                                     *)

\* C30: the k-th wait (k = 0, 1, ...) lasts 2*2^k seconds, and when all
\* permitted attempts have failed there was no wait after the last one.
C30_BackoffOnlyBetweenAttempts ==
    /\ \A k \in 1..Len(sleeps) : sleeps[k] = 2 * (2 ^ (k - 1))
    /\ cc_pc = "failed" => Len(sleeps) = Len(requests) - 1

-----------------------------------------------------------------------------
(* C25.  A failed DaMIA lookup is not raised out of _verify_cases: the     *)
(* case goes to the secondary source and gets a record, and the records of *)
(* the other cases are what they would be without the failure.             *)

DamiaFailures ==
    {"no_key", "timeout", "request_error", "unexpected_exception",
     "http_200_not_json", "http_500"}

\* The indexes of the cases that have a case number, in list order.
RECURSIVE NonEmptyCases(_, _)
NonEmptyCases(cases, i) ==
    IF i > Len(cases) THEN <<>>
    ELSE IF cases[i] = "" THEN NonEmptyCases(cases, i + 1)
    ELSE <<i>> \o NonEmptyCases(cases, i + 1)

\* C25: every failure of the lookup is returned as a result that does not
\* exist and carries an error; _verify_cases never raises; the step that
\* receives a failed lookup goes on to the secondary source for that case;
\* the record of a case whose lookup failed is the secondary source's
\* record; records already appended never change; and on return each case
\* with a number has exactly one record, in list order.
C25_DamiaFailureFallsThrough ==
    /\ [](\A o \in DamiaFailures :
            verify_case_damia(o) = [exists |-> FALSE, error |-> "error"])
    /\ [](vc_pc \in {"idle", "loop", "perplexity", "returned"})
    /\ [][(vc_pc = "loop" /\ Len(vc_queries') > Len(vc_queries)) =>
            (damia_result'.exists \/
               /\ vc_pc' = "perplexity"
               /\ vc_i' = vc_i
               /\ verified_cases' = verified_cases)]_vars
    /\ [](\A k \in 1..Len(verified_cases) :
            LET rec == verified_cases[k] IN
              /\ rec.damia_error = "error" =>
                    /\ rec.verification_source = "perplexity"
                    /\ rec.status = perplexity_status(rec.perplexity_result)
                    /\ rec.status \in {"VERIFIED", "LIKELY_EXISTS", "NOT_FOUND"}
              /\ rec.verification_source = "damia_api" =>
                    rec = DamiaVerified(rec.case))
    /\ [][IsPrefix(verified_cases, verified_cases')]_vars
    /\ [](vc_pc = "returned" =>
            /\ Len(verified_cases) = Len(NonEmptyCases(vc_cases, 1))
            /\ \A k \in 1..Len(verified_cases) :
                  verified_cases[k].case = NonEmptyCases(vc_cases, 1)[k])

\* Two cases were verified: the lookup of the first failed and it got its
\* record from the secondary source, the second was confirmed by DaMIA.
C25_Witness ==
    /\ vc_pc = "returned"
    /\ Len(verified_cases) = 2
    /\ verified_cases[1].damia_error = "error"
    /\ verified_cases[1].verification_source = "perplexity"
    /\ verified_cases[2].verification_source = "damia_api"
    /\ verified_cases[2].status = "VERIFIED"

-----------------------------------------------------------------------------
(* run_consilium's verified_cases (services/consilium.py).  The list is    *)
(* the "cases" of the reviewer's answer as stage_2_peer_review returns it: *)
(* specified on its own, for every reviewer response.                      *)

\* Case numbers a reviewer may cite, as character sequences: the same
\* number in two spellings, and another number.
ReviewCaseNumbers ==
    {<<"A", "4", "0">>, <<"a", "4", "0">>, <<"A", "4", "1">>}

\* The statuses the review prompt asks the reviewer to give a case.
ReviewStatuses == {"VERIFIED", "NEEDS_CHECK"}

\* The items of the reviewer's "cases" list: objects with a case number and
\* a status, or something that is not an object.
ReviewItems ==
    [kind : {"object"}, case_number : ReviewCaseNumbers, status : ReviewStatuses]
      \cup {[kind |-> "not_object", case_number |-> <<>>, status |-> "None"]}

\* What the reviewer call can produce: it raises, its text has no {...},
\* the text matched is not valid JSON, or it is a JSON object with a list
\* of cases.
ReviewerResponses ==
    {[kind |-> k, cases |-> <<>>] : k \in {"call_failed", "no_json", "invalid_json"}}
      \cup [kind : {"json"},
            cases : UNION {[1..n -> ReviewItems] : n \in 0..MaxCases}]

\* stage_2_peer_review(...)["cases"]: data.get("cases", []) of the parsed
\* answer, [] when the call or the parsing failed.
stage_2_peer_review(response) ==
    IF response.kind = "json" THEN response.cases ELSE <<>>

\* stage_3_final_synthesis builds its prompt with case.get(...) on every
\* case, outside its try block.
Stage3Raises(cases) == \E i \in 1..Len(cases) : cases[i].kind = "not_object"

ReviewInit ==
    /\ StreamInit
    /\ ChatIdle
    /\ VerifyIdle
    /\ ExtractIdle
    /\ NpaExtractIdle
    /\ NpaVerifyIdle
    /\ QueryIdle
    /\ rv_pc = "called"
    /\ rv_response \in ReviewerResponses
    /\ rv_verified_cases = <<>>

\* review_data = await stage_2_peer_review(...);
\* result["verified_cases"] = review_data.get("cases", []); stage 3 runs and
\* run_consilium returns result, unless stage 3 raised.
ReviewReturn ==
    /\ rv_pc = "called"
    /\ rv_verified_cases' = stage_2_peer_review(rv_response)
    /\ rv_pc' = IF Stage3Raises(stage_2_peer_review(rv_response))
                  THEN "raised" ELSE "returned"
    /\ UNCHANGED rv_response
    /\ UNCHANGED <<stream_vars, chat_vars, verify_vars, extract_vars,
                   npa_extract_vars, npa_verify_vars, query_vars>>

ReviewNext == ReviewReturn

ReviewSpec == ReviewInit /\ [][ReviewNext]_vars

-----------------------------------------------------------------------------
(* C21.  verified_cases holds no two entries with the same normalized case *)
(* number.                                                                 *)

\* C21: in the verified_cases run_consilium delivers, no two entries have
\* case numbers that are equal once normalized.
C21_VerifiedCasesUniqueByNormalizedNumber ==
    rv_pc = "returned" =>
        \A i, j \in 1..Len(rv_verified_cases) :
            _normalize_case_number(rv_verified_cases[i].case_number)
                = _normalize_case_number(rv_verified_cases[j].case_number)
            => i = j

-----------------------------------------------------------------------------
(* C26.  Every delivered verification result has a status of the           *)
(* enumeration.                                                            *)

VerificationStatuses ==
    {"VERIFIED", "LIKELY_EXISTS", "NOT_FOUND", "AMENDED", "REPEALED"}

\* C26: each entry of the verified_cases run_consilium delivers has a
\* status in {VERIFIED, LIKELY_EXISTS, NOT_FOUND, AMENDED, REPEALED}.
C26_StatusInEnumeration ==
    rv_pc = "returned" =>
        \A i \in 1..Len(rv_verified_cases) :
            rv_verified_cases[i].status \in VerificationStatuses

-----------------------------------------------------------------------------
(* NPA extraction (services/npa_verification.py): the two strategies,      *)
(* extract_npa_references_regex and extract_npa_references_llm, each       *)
(* specified on its own as a function of what it works on.  Texts are      *)
(* character sequences; Latin letters stand for the Cyrillic ones of the   *)
(* source ("st." for the article abbreviation, "GK" for a code, "RF").     *)

MaxRefs == 5

\* A match of pattern1 in the text: match.group(0) and its two groups.  The
\* pattern allows any whitespace between its parts (\s*, \s+) and is applied
\* with re.IGNORECASE.
Mention(st, sep, article, code, rf) ==
    [kind |-> "match",
     raw_reference |-> st \o sep \o article \o <<" ">> \o code \o <<" ">> \o rf,
     act_type |-> code,
     article |-> article]

\* Mentions of articles in a text: article 1 of a code written in three
\* ways, and article 2 of the same code.
NpaMentions ==
    {Mention(<<"s", "t", ".">>, <<" ">>, <<"1">>, <<"G", "K">>, <<"R", "F">>),
     Mention(<<"s", "t", ".">>, <<" ">>, <<"1">>, <<"g", "k">>, <<"r", "f">>),
     Mention(<<"s", "t", ".">>, <<>>, <<"1">>, <<"G", "K">>, <<"R", "F">>),
     Mention(<<"s", "t", ".">>, <<" ">>, <<"2">>, <<"G", "K">>, <<"R", "F">>)}

\* An entry of data["npa_references"]: an object with the fields of a
\* reference, or something that is not an object.
NpaLlmItems ==
    {[m EXCEPT !.kind = "object"] : m \in NpaMentions}
      \cup {[kind |-> "not_object", raw_reference |-> <<>>,
             act_type |-> <<>>, article |-> <<>>]}

\* What extract_npa_references_regex works on: the matches in its text.
NpaRegexInputs ==
    [strategy : {"regex"}, kind : {"text"},
     items : UNION {[1..n -> NpaMentions] : n \in 0..MaxRefs}]

\* What extract_npa_references_llm works on: the model call raises, its
\* text has no {...}, the text matched is not valid JSON, or it is a JSON
\* object with a list of references.
NpaLlmInputs ==
    [strategy : {"llm"}, kind : {"call_failed", "no_json", "invalid_json"},
     items : {<<>>}]
      \cup [strategy : {"llm"}, kind : {"json"},
            items : UNION {[1..n -> NpaLlmItems] : n \in 0..MaxRefs}]

\* NpaReference(act_type=code_upper, article=article, raw_reference=match.group(0))
regex_reference(m) ==
    [act_type |-> upper(m.act_type), article |-> m.article,
     raw_reference |-> m.raw_reference]

\* NpaReference(act_type=ref_data.get("act_type", ""), ...)
llm_reference(ref_data) ==
    [act_type |-> ref_data.act_type, article |-> ref_data.article,
     raw_reference |-> ref_data.raw_reference]

\* for ref in references: if ref.raw_reference not in seen: ...
RECURSIVE unique_refs(_, _, _)
unique_refs(references, i, seen) ==
    IF i > Len(references) THEN <<>>
    ELSE IF references[i].raw_reference \notin seen
      THEN <<references[i]>>
             \o unique_refs(references, i + 1,
                            seen \cup {references[i].raw_reference})
      ELSE unique_refs(references, i + 1, seen)

\* extract_npa_references_regex(text): a reference per match, then the
\* duplicates by raw_reference removed.
extract_npa_references_regex(matches) ==
    unique_refs([i \in 1..Len(matches) |-> regex_reference(matches[i])], 1, {})

\* ref_data.get(...) on something that is not an object raises.
RefRaises(ref_data) == ref_data.kind = "not_object"

\* extract_npa_references_llm(text): a reference per entry of the parsed
\* answer, or [] if no JSON object was found or the try block raised.
extract_npa_references_llm(input) ==
    IF input.kind # "json" THEN <<>>
    ELSE IF \E i \in 1..Len(input.items) : RefRaises(input.items[i]) THEN <<>>
    ELSE [i \in 1..Len(input.items) |-> llm_reference(input.items[i])]

NpaOthersIdle ==
    /\ StreamInit
    /\ ChatIdle
    /\ VerifyIdle
    /\ NpaVerifyIdle
    /\ ReviewIdle
    /\ QueryIdle

NpaRegexInit ==
    /\ NpaOthersIdle
    /\ ExtractIdle
    /\ np_pc = "called"
    /\ np_input \in NpaRegexInputs
    /\ np_references = <<>>

NpaLlmInit ==
    /\ NpaOthersIdle
    /\ ExtractIdle
    /\ np_pc = "called"
    /\ np_input \in NpaLlmInputs
    /\ np_references = <<>>

NpaExtractInit == NpaRegexInit \/ NpaLlmInit

\* extract_npa_references_regex returns unique_refs.
NpaRegexReturn ==
    /\ np_pc = "called"
    /\ np_input.strategy = "regex"
    /\ np_references' = extract_npa_references_regex(np_input.items)
    /\ np_pc' = "returned"
    /\ UNCHANGED np_input
    /\ UNCHANGED <<stream_vars, chat_vars, verify_vars, extract_vars,
                   npa_verify_vars, review_vars, query_vars>>

\* NpaLlmReturn with the loop over the entries outside the try block.
NpaLlmReturn_LoopOutsideTry ==
    /\ np_pc = "called"
    /\ np_input.strategy = "llm"
    /\ np_references' = extract_npa_references_llm(np_input)
    /\ np_pc' = IF /\ np_input.kind = "json"
                   /\ \E i \in 1..Len(np_input.items) : RefRaises(np_input.items[i])
                  THEN "raised" ELSE "returned"
    /\ UNCHANGED np_input
    /\ UNCHANGED <<stream_vars, chat_vars, verify_vars, extract_vars,
                   npa_verify_vars, review_vars, query_vars>>

\* extract_npa_references_llm returns references from inside the try
\* block, or [] after it.
NpaLlmReturn ==
    /\ np_pc = "called"
    /\ np_input.strategy = "llm"
    /\ np_references' = extract_npa_references_llm(np_input)
    /\ np_pc' = "returned"
    /\ UNCHANGED np_input
    /\ UNCHANGED <<stream_vars, chat_vars, verify_vars, extract_vars,
                   npa_verify_vars, review_vars, query_vars>>

NpaExtractNext == NpaRegexReturn \/ NpaLlmReturn

NpaExtractSpec == NpaExtractInit /\ [][NpaExtractNext]_vars

\* The two generative extractors, each called on its own.
GenExtractInit == ExtractInit \/ NpaLlmInit

GenExtractNext == ExtractReturn \/ NpaLlmReturn

GenExtractSpec == GenExtractInit /\ [][GenExtractNext]_vars

-----------------------------------------------------------------------------
(* C22.  Both NPA extraction strategies return references with pairwise    *)
(* distinct normalized keys.                                               *)

\* The normalized key of a reference: its text in lower case without
\* whitespace.
NpaKey(ref) == lower(remove_spaces(strip(ref.raw_reference)))

\* C22: in the list either strategy returns, no two references have the
\* same normalized key.
C22_ReferencesUniqueByNormalizedKey ==
    np_pc = "returned" =>
        \A i, j \in 1..Len(np_references) :
            NpaKey(np_references[i]) = NpaKey(np_references[j]) => i = j

-----------------------------------------------------------------------------
(* C23.  The generative extractors never raise and return an empty list    *)
(* when the call or the parsing of its answer fails.                       *)

\* The answer cannot be processed: the call failed, no JSON object was
\* found, the JSON is invalid, or an entry makes its processing raise.
CasesUnusable(response) ==
    \/ response.kind \in {"call_failed", "no_json", "invalid_json"}
    \/ \E i \in 1..Len(response.cases) : Raises(response.cases[i])

ReferencesUnusable(input) ==
    \/ input.kind \in {"call_failed", "no_json", "invalid_json"}
    \/ \E i \in 1..Len(input.items) : RefRaises(input.items[i])

\* C23: neither extractor raises, and each returns the empty list when the
\* model call failed, its answer holds no JSON object or invalid JSON, or
\* an entry of the list has a shape its processing cannot handle.
C23_GenerativeExtractorsNeverRaise ==
    /\ ex_pc \in {"idle", "called", "returned"}
    /\ np_pc \in {"idle", "called", "returned"}
    /\ (ex_pc = "returned" /\ CasesUnusable(ex_response)) => unique_cases = <<>>
    /\ (np_pc = "returned" /\ ReferencesUnusable(np_input)) => np_references = <<>>

\* _extract_case_numbers returned the empty list for an answer whose second
\* entry is not an object although its first entry is a usable case.
C23_Witness ==
    /\ ex_pc = "returned"
    /\ ex_response.kind = "json"
    /\ Len(ex_response.cases) = 2
    /\ ex_response.cases[1].kind = "string"
    /\ case_num(ex_response.cases[1]) # <<>>
    /\ ex_response.cases[2].kind = "not_object"
    /\ unique_cases = <<>>

-----------------------------------------------------------------------------
(* verify_npa_references (services/npa_verification.py): one               *)
(* verify_with_semaphore task per reference, gathered; each task holds the *)
(* semaphore while its verify_npa_reference call is in progress.           *)

max_concurrent == 3

\* The statuses the verification prompt asks for, and another text.
NpaModelStatuses == {"VERIFIED", "AMENDED", "REPEALED", "NOT_FOUND", "UNKNOWN"}

\* What the verification call can produce: it raises, its text has no
\* {...}, the text matched is not valid JSON, or it is a JSON object whose
\* "status" is some text or is missing.
NpaVerifyResponses ==
    [kind : {"call_failed", "no_json", "invalid_json", "json_no_status"},
     status : {"None"}]
      \cup [kind : {"json"}, status : NpaModelStatuses]

\* verify_npa_reference(reference).status: data.get("status", "NOT_FOUND")
\* of the parsed answer, NOT_FOUND if there is none or the try block raised.
verify_npa_reference(resp) ==
    IF resp.kind = "json" THEN resp.status ELSE "NOT_FOUND"

NvWaiting == {"created", "pending", "running"}
NvRunning == {i \in 1..Len(nv_tasks) : nv_tasks[i] = "running"}

NpaVerifyInit ==
    /\ StreamInit
    /\ ChatIdle
    /\ VerifyIdle
    /\ ExtractIdle
    /\ NpaExtractIdle
    /\ ReviewIdle
    /\ QueryIdle
    /\ nv_pc = "called"
    /\ nv_tasks \in UNION {[1..n -> {"created"}] : n \in 0..MaxRefs}
    /\ semaphore = 0
    /\ nv_verified = <<>>

\* if not references: return []; semaphore = asyncio.Semaphore(max_concurrent);
\* tasks = [...]; asyncio.gather(*tasks, ...) schedules every task.
NvStart ==
    /\ nv_pc = "called"
    /\ IF Len(nv_tasks) = 0
         THEN /\ nv_pc' = "returned"
              /\ UNCHANGED <<nv_tasks, semaphore>>
         ELSE /\ nv_pc' = "gathering"
              /\ semaphore' = max_concurrent
              /\ nv_tasks' = [i \in 1..Len(nv_tasks) |-> "pending"]
    /\ UNCHANGED nv_verified
    /\ UNCHANGED <<stream_vars, chat_vars, verify_vars, extract_vars,
                   npa_extract_vars, review_vars, query_vars>>

\* NvAcquire with a semaphore that never blocks.
NvAcquire_NoLimit(i) ==
    /\ nv_pc = "gathering"
    /\ nv_tasks[i] = "pending"
    /\ semaphore' = IF semaphore > 0 THEN semaphore - 1 ELSE 0
    /\ nv_tasks' = [nv_tasks EXCEPT ![i] = "running"]
    /\ UNCHANGED <<nv_pc, nv_verified>>
    /\ UNCHANGED <<stream_vars, chat_vars, verify_vars, extract_vars,
                   npa_extract_vars, review_vars, query_vars>>

\* async with semaphore: the task enters when the value is positive and
\* starts its verify_npa_reference call.
NvAcquire(i) ==
    /\ nv_pc = "gathering"
    /\ nv_tasks[i] = "pending"
    /\ semaphore > 0
    /\ semaphore' = semaphore - 1
    /\ nv_tasks' = [nv_tasks EXCEPT ![i] = "running"]
    /\ UNCHANGED <<nv_pc, nv_verified>>
    /\ UNCHANGED <<stream_vars, chat_vars, verify_vars, extract_vars,
                   npa_extract_vars, review_vars, query_vars>>

\* The call of task i settles: verify_npa_reference returns and the task
\* leaves the async with block, releasing the semaphore.
NvComplete(i, resp) ==
    /\ nv_pc = "gathering"
    /\ nv_tasks[i] = "running"
    /\ nv_tasks' = [nv_tasks EXCEPT ![i] = verify_npa_reference(resp)]
    /\ semaphore' = semaphore + 1
    /\ UNCHANGED <<nv_pc, nv_verified>>
    /\ UNCHANGED <<stream_vars, chat_vars, verify_vars, extract_vars,
                   npa_extract_vars, review_vars, query_vars>>

\* gather returns when every task is done; the results are appended in
\* the order of the references; return verified.
NvReturn ==
    /\ nv_pc = "gathering"
    /\ \A i \in 1..Len(nv_tasks) : nv_tasks[i] \notin NvWaiting
    /\ nv_verified' = nv_tasks
    /\ nv_pc' = "returned"
    /\ UNCHANGED <<nv_tasks, semaphore>>
    /\ UNCHANGED <<stream_vars, chat_vars, verify_vars, extract_vars,
                   npa_extract_vars, review_vars, query_vars>>

NpaVerifyNext ==
    \/ NvStart
    \/ \E i \in 1..Len(nv_tasks) : NvAcquire(i)
    \/ \E i \in 1..Len(nv_tasks), resp \in NpaVerifyResponses : NvComplete(i, resp)
    \/ NvReturn

NpaVerifySpec == NpaVerifyInit /\ [][NpaVerifyNext]_vars

-----------------------------------------------------------------------------
(* C24.  No more than max_concurrent verify_npa_reference calls are in     *)
(* progress at once.                                                       *)

\* C24: at every moment at most max_concurrent calls are in progress, and
\* while the tasks run the semaphore's value is max_concurrent less the
\* number of calls in progress.
C24_AtMostMaxConcurrentInProgress ==
    /\ Cardinality(NvRunning) <= max_concurrent
    /\ nv_pc = "gathering" => semaphore + Cardinality(NvRunning) = max_concurrent

\* More references than max_concurrent: one call has completed, and
\* max_concurrent calls are in progress while another reference waits.
C24_Witness ==
    /\ nv_pc = "gathering"
    /\ Len(nv_tasks) > max_concurrent + 1
    /\ Cardinality(NvRunning) = max_concurrent
    /\ \E i \in 1..Len(nv_tasks) : nv_tasks[i] = "pending"
    /\ \E i \in 1..Len(nv_tasks) : nv_tasks[i] \notin NvWaiting

-----------------------------------------------------------------------------
(* The single-query stream (routers/query.py, single_query's generate())   *)
(* and the search task it creates (search_court_practice in                *)
(* services/court_practice_search.py).  The task puts its stage events on  *)
(* the unbounded stage_queue; the generator polls the queue with a 0.1 s   *)
(* timeout while the task is not done, drains it afterwards and then       *)
(* yields the generating event.  A stage event is the pair of its stage    *)
(* and what its message reports (the number of cases for "verify").        *)

StageEvent(stage, n) == [stage |-> stage, message |-> n]
Generating == StageEvent("generating", 0)
IsSearchStage(e) == e.stage # "generating"

QueryInit ==
    /\ StreamInit
    /\ ChatIdle
    /\ VerifyIdle
    /\ ExtractIdle
    /\ NpaExtractIdle
    /\ NpaVerifyIdle
    /\ ReviewIdle
    /\ q_pc = "spawn"
    /\ q_yielded = <<>>
    /\ stage_queue = <<>>
    /\ s_pc = "not_created"
    /\ s_emitted = <<>>

\* stage_queue = asyncio.Queue(); search_task = asyncio.create_task(...)
QCreateTask ==
    /\ q_pc = "spawn"
    /\ s_pc' = "created"
    /\ q_pc' = "loop"
    /\ UNCHANGED <<q_yielded, stage_queue, s_emitted>>
    /\ UNCHANGED <<stream_vars, chat_vars, verify_vars, extract_vars,
                   npa_extract_vars, npa_verify_vars, review_vars>>

\* while not search_task.done(): enter wait_for(stage_queue.get(), 0.1), or
\* leave the loop; court_practice_result = await search_task returns at
\* once for a task that is done.
QCheckDone ==
    /\ q_pc = "loop"
    /\ q_pc' = IF s_pc = "finished" THEN "drain" ELSE "get"
    /\ UNCHANGED <<q_yielded, stage_queue, s_pc, s_emitted>>
    /\ UNCHANGED <<stream_vars, chat_vars, verify_vars, extract_vars,
                   npa_extract_vars, npa_verify_vars, review_vars>>

\* update = await asyncio.wait_for(stage_queue.get(), timeout=0.1); yield update
QGet ==
    /\ q_pc = "get"
    /\ stage_queue # <<>>
    /\ q_yielded' = Append(q_yielded, Head(stage_queue))
    /\ stage_queue' = Tail(stage_queue)
    /\ q_pc' = "loop"
    /\ UNCHANGED <<s_pc, s_emitted>>
    /\ UNCHANGED <<stream_vars, chat_vars, verify_vars, extract_vars,
                   npa_extract_vars, npa_verify_vars, review_vars>>

\* except asyncio.TimeoutError: continue.  The 0.1 s ran out before the get
\* took an item; an item put at that very moment stays in the queue.
QTimeout ==
    /\ q_pc = "get"
    /\ q_pc' = "loop"
    /\ UNCHANGED <<q_yielded, stage_queue, s_pc, s_emitted>>
    /\ UNCHANGED <<stream_vars, chat_vars, verify_vars, extract_vars,
                   npa_extract_vars, npa_verify_vars, review_vars>>

\* while not stage_queue.empty(): update = await stage_queue.get(); yield update
QDrain ==
    /\ q_pc = "drain"
    /\ stage_queue # <<>>
    /\ q_yielded' = Append(q_yielded, Head(stage_queue))
    /\ stage_queue' = Tail(stage_queue)
    /\ UNCHANGED <<q_pc, s_pc, s_emitted>>
    /\ UNCHANGED <<stream_vars, chat_vars, verify_vars, extract_vars,
                   npa_extract_vars, npa_verify_vars, review_vars>>

\* QGenerating without the loop that drains the queue first.
QGenerating_NoDrain ==
    /\ q_pc = "drain"
    /\ q_yielded' = Append(q_yielded, Generating)
    /\ q_pc' = "generated"
    /\ UNCHANGED <<stage_queue, s_pc, s_emitted>>
    /\ UNCHANGED <<stream_vars, chat_vars, verify_vars, extract_vars,
                   npa_extract_vars, npa_verify_vars, review_vars>>

\* The queue is empty: yield {'stage': 'generating', ...}
QGenerating ==
    /\ q_pc = "drain"
    /\ stage_queue = <<>>
    /\ q_yielded' = Append(q_yielded, Generating)
    /\ q_pc' = "generated"
    /\ UNCHANGED <<stage_queue, s_pc, s_emitted>>
    /\ UNCHANGED <<stream_vars, chat_vars, verify_vars, extract_vars,
                   npa_extract_vars, npa_verify_vars, review_vars>>

\* The transport stops consuming: the generator is closed where it is
\* suspended.  The search task is not cancelled.
QClose ==
    /\ q_pc \in {"loop", "get", "drain", "generated"}
    /\ q_pc' = "closed"
    /\ UNCHANGED <<q_yielded, stage_queue, s_pc, s_emitted>>
    /\ UNCHANGED <<stream_vars, chat_vars, verify_vars, extract_vars,
                   npa_extract_vars, npa_verify_vars, review_vars>>

\* await on_stage_update(stage, message): await stage_queue.put({...})
SearchEmit(e) ==
    /\ stage_queue' = Append(stage_queue, e)
    /\ s_emitted' = Append(s_emitted, e)

\* on_stage_update("search", ...); the Perplexity search starts.
SearchStart ==
    /\ s_pc = "created"
    /\ SearchEmit(StageEvent("search", 0))
    /\ s_pc' = "searching"
    /\ UNCHANGED <<q_pc, q_yielded>>
    /\ UNCHANGED <<stream_vars, chat_vars, verify_vars, extract_vars,
                   npa_extract_vars, npa_verify_vars, review_vars>>

\* _search_with_perplexity returns (the text found, or the error text);
\* on_stage_update("extract", ...); the extraction call starts.
SearchExtract ==
    /\ s_pc = "searching"
    /\ SearchEmit(StageEvent("extract", 0))
    /\ s_pc' = "extracting"
    /\ UNCHANGED <<q_pc, q_yielded>>
    /\ UNCHANGED <<stream_vars, chat_vars, verify_vars, extract_vars,
                   npa_extract_vars, npa_verify_vars, review_vars>>

\* _extract_case_numbers returns n cases: if not cases: return result;
\* otherwise on_stage_update("verify", f"... {len(cases)} ...") and the
\* verification starts.
SearchVerify(n) ==
    /\ s_pc = "extracting"
    /\ IF n = 0
         THEN /\ s_pc' = "finished"
              /\ UNCHANGED <<stage_queue, s_emitted>>
         ELSE /\ SearchEmit(StageEvent("verify", n))
              /\ s_pc' = "verifying"
    /\ UNCHANGED <<q_pc, q_yielded>>
    /\ UNCHANGED <<stream_vars, chat_vars, verify_vars, extract_vars,
                   npa_extract_vars, npa_verify_vars, review_vars>>

\* _verify_cases returns; on_stage_update("complete", summary); return result
SearchComplete ==
    /\ s_pc = "verifying"
    /\ SearchEmit(StageEvent("complete", s_emitted[Len(s_emitted)].message))
    /\ s_pc' = "finished"
    /\ UNCHANGED <<q_pc, q_yielded>>
    /\ UNCHANGED <<stream_vars, chat_vars, verify_vars, extract_vars,
                   npa_extract_vars, npa_verify_vars, review_vars>>

QueryNext ==
    \/ QCreateTask
    \/ QCheckDone
    \/ QGet
    \/ QTimeout
    \/ QDrain
    \/ QGenerating
    \/ QClose
    \/ SearchStart
    \/ SearchExtract
    \/ \E n \in 0..MaxCases : SearchVerify(n)
    \/ SearchComplete

QuerySpec == QueryInit /\ [][QueryNext]_vars

-----------------------------------------------------------------------------
(* C29.  Every stage event of the search is yielded once, in emission      *)
(* order, before the generating event.                                     *)

QYieldedStages == SelectSeq(q_yielded, IsSearchStage)

\* C29: the stage events yielded so far, followed by those still queued,
\* are the events emitted so far, in emission order (none lost, repeated or
\* reordered); no stage is emitted twice; and once generating has been
\* yielded the search has finished, all its events were yielded, and
\* generating is the last item.
C29_StageEventsOnceInOrderBeforeGenerating ==
    /\ QYieldedStages \o stage_queue = s_emitted
    /\ \A i, j \in 1..Len(s_emitted) :
           s_emitted[i].stage = s_emitted[j].stage => i = j
    /\ Generating \in Range(q_yielded) =>
           /\ s_pc = "finished"
           /\ stage_queue = <<>>
           /\ q_yielded = Append(s_emitted, Generating)

\* The search went through all its stages and each of the four events was
\* yielded before generating.
C29_Witness ==
    /\ q_pc = "generated"
    /\ Len(s_emitted) = 4
    /\ q_yielded = Append(s_emitted, Generating)

====
